---- MODULE Spec2Model ----
(***************************************************************************)
(* Model of the instrumented-request lifecycle of the sample HTTP service  *)
(* (src/app.js): the in-memory user store, the route handlers, the         *)
(* metrics/tracing middleware and its response 'finish' callback.          *)
(*                                                                         *)
(* Strings that the code inspects character by character (the :id path     *)
(* segment) are sequences of one-character strings; a request path is the  *)
(* sequence of its segments.                                               *)
(***************************************************************************)
EXTENDS Integers, Sequences, FiniteSets, TLC

\* ------------------------------------------------------------------ bounds

\* Number of requests the server receives in one behaviour.
MaxReq == 2

\* --------------------------------------------------------------- JS values

\* A body field that is absent destructures to undefined.
UNDEF == "<undefined>"

FalsyOnlyUndefined(v) == v = UNDEF

\* !v for the string-or-undefined values a body field takes here.
Falsy(v) == v = UNDEF \/ v = ""

\* ---------------------------------------------------------------- parseInt

DecDigits == {"0", "1", "2", "3", "4", "5", "6", "7", "8", "9"}

HexDigits == DecDigits \cup {"a", "b", "c", "d", "e", "f"}

WhiteSpace == {" "}

DigitVal(c) ==
  CASE c = "0" -> 0 [] c = "1" -> 1 [] c = "2" -> 2 [] c = "3" -> 3
    [] c = "4" -> 4 [] c = "5" -> 5 [] c = "6" -> 6 [] c = "7" -> 7
    [] c = "8" -> 8 [] c = "9" -> 9 [] c = "a" -> 10 [] c = "b" -> 11
    [] c = "c" -> 12 [] c = "d" -> 13 [] c = "e" -> 14 [] c = "f" -> 15

RECURSIVE TrimStart(_)
TrimStart(s) ==
  IF s # <<>> /\ Head(s) \in WhiteSpace THEN TrimStart(Tail(s)) ELSE s

\* The longest prefix of s made of digits of the radix.
RECURSIVE DigitPrefix(_, _)
DigitPrefix(s, digits) ==
  IF s # <<>> /\ Head(s) \in digits
    THEN <<Head(s)>> \o DigitPrefix(Tail(s), digits)
    ELSE <<>>

RECURSIVE DigitsValue(_, _, _)
DigitsValue(s, radix, acc) ==
  IF s = <<>> THEN acc
  ELSE DigitsValue(Tail(s), radix, acc * radix + DigitVal(Head(s)))

\* parseInt(string) with no radix argument: leading white space is skipped,
\* one sign is taken, a 0x prefix selects radix 16, then the longest digit
\* prefix is converted and whatever follows it is ignored; no digit at all
\* gives NaN.
ParseInt(str) ==
  LET s0     == TrimStart(str)
      neg    == s0 # <<>> /\ Head(s0) = "-"
      s1     == IF s0 # <<>> /\ Head(s0) \in {"+", "-"} THEN Tail(s0) ELSE s0
      hex    == Len(s1) >= 2 /\ s1[1] = "0" /\ s1[2] \in {"x", "X"}
      s2     == IF hex THEN Tail(Tail(s1)) ELSE s1
      radix  == IF hex THEN 16 ELSE 10
      z      == DigitPrefix(s2, IF hex THEN HexDigits ELSE DecDigits)
      n      == DigitsValue(z, radix, 0)
  IN  IF z = <<>> THEN [nan |-> TRUE, val |-> 0]
      ELSE [nan |-> FALSE, val |-> IF neg THEN 0 - n ELSE n]

\* ------------------------------------------------------------- request paths

API == <<"a", "p", "i">>

API_UPPER == <<"A", "P", "I">>

HEALTH == <<"h", "e", "a", "l", "t", "h">>

USERS == <<"u", "s", "e", "r", "s">>

SLOW == <<"s", "l", "o", "w">>

ERROR == <<"e", "r", "r", "o", "r">>

METRICS == <<"m", "e", "t", "r", "i", "c", "s">>

NOPE == <<"n", "o", "p", "e">>

PARAM_ID == <<":", "i", "d">>

\* The route table, in registration order.  path is the route template
\* (req.route.path); name identifies the handler.
Routes ==
  << [method |-> "GET",  path |-> <<>>,                      name |-> "root"],
     [method |-> "GET",  path |-> <<API, HEALTH>>,           name |-> "health"],
     [method |-> "GET",  path |-> <<API, USERS>>,            name |-> "users_list"],
     [method |-> "GET",  path |-> <<API, USERS, PARAM_ID>>,  name |-> "user_by_id"],
     [method |-> "POST", path |-> <<API, USERS>>,            name |-> "create_user"],
     [method |-> "GET",  path |-> <<API, SLOW>>,             name |-> "slow"],
     [method |-> "GET",  path |-> <<API, ERROR>>,            name |-> "error"],
     [method |-> "GET",  path |-> <<METRICS>>,               name |-> "metrics"] >>

LowerChar(c) ==
  CASE c = "A" -> "a" [] c = "P" -> "p" [] c = "I" -> "i" [] OTHER -> c

LowerStr(s) == [i \in 1..Len(s) |-> LowerChar(s[i])]

IsParam(t) == t # <<>> /\ Head(t) = ":"

\* Express 4 routing defaults: case-insensitive, one trailing slash allowed,
\* a :param matches one non-empty segment.
SegMatches(t, s) == IF IsParam(t) THEN s # <<>> ELSE LowerStr(s) = t

StripTrailingSlash(path) ==
  IF path # <<>> /\ path[Len(path)] = <<>>
    THEN SubSeq(path, 1, Len(path) - 1)
    ELSE path

PathMatches(template, path) ==
  LET p == StripTrailingSlash(path)
  IN  /\ Len(p) = Len(template)
      /\ \A i \in 1..Len(p) : SegMatches(template[i], p[i])

\* Index in Routes of the first route that matches method and path; 0 when
\* none does (req.route stays undefined).
RouteOf(method, path) ==
  LET hits == {i \in 1..Len(Routes) :
                 Routes[i].method = method /\ PathMatches(Routes[i].path, path)}
  IN  IF hits = {} THEN 0
      ELSE CHOOSE i \in hits : \A j \in hits : i <= j

RouteName(method, path) ==
  IF RouteOf(method, path) = 0 THEN "none"
  ELSE Routes[RouteOf(method, path)].name

\* The request as the router leaves it: req.route resolved (0: undefined).
Routed(method, path, body) ==
  [method |-> method, path |-> path, body |-> body,
   route |-> RouteName(method, path), routeIdx |-> RouteOf(method, path)]

\* ------------------------------------------------------------------ inputs

\* :id segments sent by clients (after URL decoding).
IdSegments ==
  { <<"1">>, <<"5">>, <<"9", "9", "9">>, <<"1", "a", "b", "c">>, <<"a", "b", "c">> }

NoBody == [name |-> UNDEF, email |-> UNDEF, role |-> UNDEF]

Bodies ==
  [name : {UNDEF, "", "X"}, email : {UNDEF, "y@z.com"}, role : {UNDEF, "", "admin"}]

GetPaths ==
  { <<>>, <<API, HEALTH>>, <<API_UPPER, HEALTH>>, <<API, USERS>>, <<API, USERS, <<>>>>,
    <<API, SLOW>>, <<API, ERROR>>, <<METRICS>>, <<NOPE>> }
  \cup { <<API, USERS, s>> : s \in IdSegments }

RequestInputs ==
  { Routed("GET", p, NoBody) : p \in GetPaths }
  \cup { Routed("POST", <<API, USERS>>, b) : b \in Bodies }
  \cup { Routed("POST", <<API, HEALTH>>, NoBody) }

\* Math.floor(Math.random() * 3000) + 1000 at its two ends.
Delays == {1000, 3999}

\* ------------------------------------------------------------------- state

VARIABLES
  users,                \* the in-memory user store, in insertion order
  httpRequestsTotal,    \* counter: label set -> count
  httpRequestDuration,  \* histogram: label set -> number of observations
  reqs,                 \* the requests received so far, in arrival order
  tracing,              \* whether trace.getActiveSpan() returns a span
  crashed               \* the process died of an uncaught exception

vars == <<users, httpRequestsTotal, httpRequestDuration, reqs, tracing, crashed>>

SeedUsers ==
  << [id |-> 1, name |-> "Alice Johnson", email |-> "alice@example.com", role |-> "admin"],
     [id |-> 2, name |-> "Bob Smith", email |-> "bob@example.com", role |-> "user"],
     [id |-> 3, name |-> "Charlie Brown", email |-> "charlie@example.com", role |-> "user"],
     [id |-> 4, name |-> "Diana Prince", email |-> "diana@example.com", role |-> "moderator"] >>

NoSamples == [l \in {} |-> 0]

\* ------------------------------------------------------- telemetry call sites

\* A telemetry subsystem that throws on every call, or "none".
NoFault == {"none"}

Faults == {"none", "span", "logger", "metrics"}

SpanCall(call, arg) == [sys |-> "span", call |-> call, arg |-> arg]

LogCallAlwaysInfo(level, message) ==
  [sys |-> "logger", call |-> "info", arg |-> message]

LogCall(level, message) == [sys |-> "logger", call |-> level, arg |-> message]

MetricCall(call, metric) == [sys |-> "metrics", call |-> call, arg |-> metric]

\* if (span) { ... }: the span calls are made only when a span is active.
IfSpan(span, calls) == IF span THEN calls ELSE <<>>

\* Runs the calls in order until the first one made to the subsystem that
\* throws: the calls completed, and whether one threw.
Exec(calls, f) ==
  LET bad == {i \in 1..Len(calls) : calls[i].sys = f}
      k   == IF bad = {} THEN 0 ELSE CHOOSE i \in bad : \A j \in bad : i <= j
  IN  [done  |-> IF k = 0 THEN calls ELSE SubSeq(calls, 1, k - 1),
       threw |-> k # 0]

Tag(calls, by) ==
  [i \in 1..Len(calls) |->
     [by |-> by, sys |-> calls[i].sys, call |-> calls[i].call, arg |-> calls[i].arg]]

\* ---------------------------------------------------------------- responses

\* Response bodies; the timestamp, uptime and HTML text are left out.
BaseBody ==
  [kind |-> "none", users |-> <<>>, total |-> 0, error |-> "", delay |-> 0,
   counters |-> NoSamples]

ErrorBody(message) == [BaseBody EXCEPT !.kind = "error", !.error = message]

UserBody(user) == [BaseBody EXCEPT !.kind = "user", !.users = <<user>>]

\* Express' default error handler: a handler that throws answers 500.
ExpressError == [status |-> 500, body |-> [BaseBody EXCEPT !.kind = "express-error"]]

\* Express' final handler when no route matched.
ExpressNotFound == [status |-> 404, body |-> [BaseBody EXCEPT !.kind = "express-404"]]

\* ------------------------------------------------------------ route handlers
\* A handler is given as: the telemetry calls made before the store is
\* touched (pre), the users it appends (push), the calls made after that
\* (post), and the response it then sends.

RootHandler(span) ==
  [pre    |-> IfSpan(span, << SpanCall("addEvent", "Handling root request"),
                              SpanCall("setAttributes", "custom.route=root") >>)
              \o << LogCall("info", "Root endpoint accessed") >>,
   push   |-> <<>>,
   post   |-> <<>>,
   status |-> 200,
   body   |-> [BaseBody EXCEPT !.kind = "html"]]

HealthHandler(span) ==
  [pre    |-> IfSpan(span, << SpanCall("addEvent", "Health check requested"),
                              SpanCall("setAttributes", "custom.route=health") >>)
              \o << LogCall("info", "Health check endpoint accessed") >>,
   push   |-> <<>>,
   post   |-> <<>>,
   status |-> 200,
   body   |-> [BaseBody EXCEPT !.kind = "health"]]

UsersListHandler(us, span) ==
  [pre    |-> IfSpan(span, << SpanCall("addEvent", "Fetching all users"),
                              SpanCall("setAttributes", "custom.route=users_list") >>)
              \o << LogCall("info", "Users list requested") >>,
   push   |-> <<>>,
   post   |-> <<>>,
   status |-> 200,
   body   |-> [BaseBody EXCEPT !.kind = "users", !.users = us, !.total = Len(us)]]

FindUserAmongSeed(us, userId) ==
  LET hits == {i \in 1..4 : ~userId.nan /\ us[i].id = userId.val}
  IN  IF hits = {} THEN <<>>
      ELSE << us[CHOOSE i \in hits : \A j \in hits : i <= j] >>

\* users.find(u => u.id === userId): the first user with that id, as a
\* sequence of at most one user; NaN equals no id.
FindUser(us, userId) ==
  LET hits == {i \in 1..Len(us) : ~userId.nan /\ us[i].id = userId.val}
  IN  IF hits = {} THEN <<>>
      ELSE << us[CHOOSE i \in hits : \A j \in hits : i <= j] >>

UserByIdHandler(rq, us, span) ==
  LET userId == ParseInt(StripTrailingSlash(rq.path)[3])
      user   == FindUser(us, userId)
      first  == IfSpan(span, << SpanCall("addEvent", "Fetching user by ID"),
                                SpanCall("setAttributes", "custom.route=user_by_id") >>)
  IN  IF user = <<>>
        THEN [pre    |-> first
                         \o IfSpan(span, << SpanCall("setStatus", "User not found") >>)
                         \o << LogCall("warn", "User not found") >>,
              push   |-> <<>>,
              post   |-> <<>>,
              status |-> 404,
              body   |-> ErrorBody("User not found")]
        ELSE [pre    |-> first
                         \o IfSpan(span, << SpanCall("setAttributes", "custom.user_name") >>)
                         \o << LogCall("info", "User found") >>,
              push   |-> <<>>,
              post   |-> <<>>,
              status |-> 200,
              body   |-> UserBody(user[1])]

\* Math.max(...users.map(u => u.id)) for a store that is never empty.
MaxId(us) ==
  CHOOSE m \in {us[i].id : i \in 1..Len(us)} : \A i \in 1..Len(us) : us[i].id <= m

NewUserIdNoIncrement(us) == MaxId(us)

NewUserIdByLength(us) == Len(us)

\* id: Math.max(...) + 1
NewUserId(us) == MaxId(us) + 1

CreateUserHandlerPushFirst(rq, us, span) ==
  LET name    == rq.body.name
      email   == rq.body.email
      role    == IF rq.body.role = UNDEF THEN "user" ELSE rq.body.role
      first   == IfSpan(span, << SpanCall("addEvent", "Creating new user"),
                                 SpanCall("setAttributes", "custom.route=create_user") >>)
      newUser == [id |-> NewUserId(us), name |-> name, email |-> email, role |-> role]
  IN  IF Falsy(name) \/ Falsy(email)
        THEN [pre    |-> first,
              push   |-> <<newUser>>,
              post   |-> IfSpan(span, << SpanCall("setStatus", "Missing required fields") >>)
                         \o << LogCall("error", "User creation failed - missing fields") >>,
              status |-> 400,
              body   |-> ErrorBody("Name and email are required")]
        ELSE [pre    |-> first,
              push   |-> <<newUser>>,
              post   |-> IfSpan(span, << SpanCall("setAttributes", "custom.user_id") >>)
                         \o << LogCall("info", "User created") >>,
              status |-> 201,
              body   |-> UserBody(newUser)]

CreateUserHandler(rq, us, span) ==
  LET name    == rq.body.name
      email   == rq.body.email
      role    == IF rq.body.role = UNDEF THEN "user" ELSE rq.body.role
      first   == IfSpan(span, << SpanCall("addEvent", "Creating new user"),
                                 SpanCall("setAttributes", "custom.route=create_user") >>)
      newUser == [id |-> NewUserId(us), name |-> name, email |-> email, role |-> role]
  IN  IF Falsy(name) \/ Falsy(email)
        THEN [pre    |-> first
                         \o IfSpan(span, << SpanCall("setStatus", "Missing required fields") >>)
                         \o << LogCall("error", "User creation failed - missing fields") >>,
              push   |-> <<>>,
              post   |-> <<>>,
              status |-> 400,
              body   |-> ErrorBody("Name and email are required")]
        ELSE [pre    |-> first,
              push   |-> <<newUser>>,
              post   |-> IfSpan(span, << SpanCall("setAttributes", "custom.user_id") >>)
                         \o << LogCall("info", "User created") >>,
              status |-> 201,
              body   |-> UserBody(newUser)]

\* The part of the slow handler that runs before its await.
SlowHandler(delay, span) ==
  [pre    |-> IfSpan(span, << SpanCall("addEvent", "Slow endpoint accessed"),
                              SpanCall("setAttributes", "custom.route=slow") >>)
              \o << LogCall("info", "Slow endpoint accessed") >>,
   push   |-> <<>>,
   post   |-> <<>>,
   status |-> 200,
   body   |-> [BaseBody EXCEPT !.kind = "slow", !.delay = delay]]

ErrorHandler(span) ==
  [pre    |-> IfSpan(span, << SpanCall("addEvent", "Error endpoint accessed"),
                              SpanCall("setAttributes", "custom.route=error"),
                              SpanCall("setStatus", "Intentional error for testing") >>)
              \o << LogCall("error", "Intentional error triggered") >>,
   push   |-> <<>>,
   post   |-> <<>>,
   status |-> 500,
   body   |-> ErrorBody("This is an intentional error for testing")]

\* The metrics handler up to its await: the one registry call.
MetricsHandler(counters) ==
  [pre    |-> << MetricCall("metrics", "register") >>,
   push   |-> <<>>,
   post   |-> <<>>,
   status |-> 200,
   body   |-> [BaseBody EXCEPT !.kind = "metrics", !.counters = counters]]

\* A synchronous handler run under fault f: a call that throws ends the
\* handler there and Express answers 500; what was done before stays done.
RunHandler(h, f) ==
  LET e1 == Exec(h.pre, f)
      e  == Exec(h.pre \o h.post, f)
  IN  [tel    |-> Tag(e.done, "handler"),
       push   |-> IF e1.threw THEN <<>> ELSE h.push,
       threw  |-> e.threw,
       status |-> IF e.threw THEN ExpressError.status ELSE h.status,
       body   |-> IF e.threw THEN ExpressError.body ELSE h.body]

\* ------------------------------------------------------ the finish callback

StatusMessage(status) ==
  CASE status = 400 -> "HTTP 400" [] status = 404 -> "HTTP 404"
    [] status = 500 -> "HTTP 500" [] OTHER -> "HTTP"

LabelsRawPath(r) ==
  [method |-> r.method, route |-> r.path, status_code |-> r.status]

\* labels: the route template when req.route is set, else req.path.
Labels(r) ==
  [method      |-> r.method,
   route       |-> IF r.routeIdx # 0 THEN Routes[r.routeIdx].path ELSE r.path,
   status_code |-> r.status]

FinishCallsSkipErrors(r, span) ==
  IF r.status >= 400 THEN <<>>
  ELSE << MetricCall("inc", "http_requests_total"),
          MetricCall("observe", "http_request_duration_seconds") >>
       \o IfSpan(span, << SpanCall("setAttributes", "http.*") >>)
       \o << LogCall("info", "HTTP Request") >>

FinishCallsLogFirst(r, span) ==
  << LogCall("info", "HTTP Request"),
     MetricCall("inc", "http_requests_total"),
     MetricCall("observe", "http_request_duration_seconds") >>
  \o IfSpan(span, << SpanCall("setAttributes", "http.*") >>
                  \o (IF r.status >= 400
                        THEN << SpanCall("setStatus", StatusMessage(r.status)) >>
                        ELSE <<>>))

\* The telemetry calls of the res.on('finish') callback, in program order.
FinishCalls(r, span) ==
  << MetricCall("inc", "http_requests_total"),
     MetricCall("observe", "http_request_duration_seconds") >>
  \o IfSpan(span, << SpanCall("setAttributes", "http.*") >>
                  \o (IF r.status >= 400
                        THEN << SpanCall("setStatus", StatusMessage(r.status)) >>
                        ELSE <<>>))
  \o << LogCall("info", "HTTP Request") >>

\* Counter.inc(labels) / Histogram.observe(labels, v): one more sample under
\* the label set, which is created on first use.
AddSample(c, l) ==
  IF l \in DOMAIN c THEN [c EXCEPT ![l] = @ + 1] ELSE c @@ (l :> 1)

Made(calls, call) == \E k \in 1..Len(calls) : calls[k].call = call

\* ----------------------------------------------------------------- requests

Phases == {"waiting", "collecting", "collected", "ended", "done", "hung"}

Responded(r) == r.phase \in {"ended", "done"}

DoneSet == {i \in 1..Len(reqs) : reqs[i].phase = "done"}

RespondedSet == {i \in 1..Len(reqs) : Responded(reqs[i])}

\* The middleware and the handler up to its first await, as one step: the
\* request is recorded with what the handler did.  expect is the response
\* the same handler gives on the same store when no telemetry call throws.
Receive(rq, run, phase, expect, crash) ==
  /\ ~crashed
  /\ Len(reqs) < MaxReq
  /\ users' = users \o run.push
  /\ reqs' = Append(reqs,
       [method      |-> rq.method,
        path        |-> rq.path,
        body        |-> rq.body,
        route       |-> rq.route,
        routeIdx    |-> rq.routeIdx,
        phase       |-> phase,
        status      |-> IF phase = "ended" THEN run.status ELSE 0,
        resp        |-> IF phase = "ended" THEN run.body ELSE BaseBody,
        tel         |-> run.tel,
        sample      |-> <<>>,
        expect      |-> expect,
        usersBefore |-> users,
        usersAfter  |-> users \o run.push,
        doneBefore  |-> IF rq.route = "metrics" THEN DoneSet ELSE {},
        sentBefore  |-> IF rq.route = "metrics" THEN RespondedSet ELSE {},
        snap        |-> NoSamples])
  /\ crashed' = crash
  /\ UNCHANGED <<httpRequestsTotal, httpRequestDuration, tracing>>

Answer(run) == [status |-> run.status, body |-> run.body]

\* A synchronous route: the handler runs to its response in the same step.
Serve(rq, h, f) ==
  Receive(rq, RunHandler(h, f), "ended", Answer(RunHandler(h, "none")), FALSE)

\* An async handler that throws before its first await rejects its promise;
\* Express 4 does not handle it, so no response is ever sent, and Node either
\* warns or (since 15) ends the process.
ServeAsync(rq, h, f, phase) ==
  LET run == RunHandler(h, f)
  IN  IF run.threw
        THEN \E crash \in BOOLEAN :
               Receive(rq, run, "hung", Answer(RunHandler(h, "none")), crash)
        ELSE Receive(rq, run, phase, Answer(run), FALSE)

\* ------------------------------------------------------------------ actions

GetRoot(rq, f) ==
  /\ rq.route = "root"
  /\ Serve(rq, RootHandler(tracing), f)

GetHealth(rq, f) ==
  /\ rq.route = "health"
  /\ Serve(rq, HealthHandler(tracing), f)

GetUsers(rq, f) ==
  /\ rq.route = "users_list"
  /\ Serve(rq, UsersListHandler(users, tracing), f)

GetUserById(rq, f) ==
  /\ rq.route = "user_by_id"
  /\ Serve(rq, UserByIdHandler(rq, users, tracing), f)

PostUsers(rq, f) ==
  /\ rq.route = "create_user"
  /\ Serve(rq, CreateUserHandler(rq, users, tracing), f)

GetSlow(rq, f) ==
  /\ rq.route = "slow"
  /\ \E delay \in Delays : ServeAsync(rq, SlowHandler(delay, tracing), f, "waiting")

\* The timer fires: res.json(...) with the delay the handler drew.
SlowResume(i) ==
  /\ ~crashed
  /\ i \in DOMAIN reqs
  /\ reqs[i].phase = "waiting"
  /\ reqs' = [reqs EXCEPT ![i].phase = "ended",
                          ![i].status = reqs[i].expect.status,
                          ![i].resp = reqs[i].expect.body]
  /\ UNCHANGED <<users, httpRequestsTotal, httpRequestDuration, tracing, crashed>>

GetError(rq, f) ==
  /\ rq.route = "error"
  /\ Serve(rq, ErrorHandler(tracing), f)

\* res.set(...); register.metrics() is called and awaited.
GetMetrics(rq, f) ==
  /\ rq.route = "metrics"
  /\ ServeAsync(rq, MetricsHandler(httpRequestsTotal), f, "collecting")

MetricsCollectFresh(i) ==
  /\ ~crashed
  /\ i \in DOMAIN reqs
  /\ reqs[i].phase = "collecting"
  /\ reqs' = [reqs EXCEPT ![i].phase = "collected", ![i].snap = NoSamples]
  /\ UNCHANGED <<users, httpRequestsTotal, httpRequestDuration, tracing, crashed>>

\* The registry reads its counters at some point while the handler awaits.
MetricsCollect(i) ==
  /\ ~crashed
  /\ i \in DOMAIN reqs
  /\ reqs[i].phase = "collecting"
  /\ reqs' = [reqs EXCEPT ![i].phase = "collected", ![i].snap = httpRequestsTotal]
  /\ UNCHANGED <<users, httpRequestsTotal, httpRequestDuration, tracing, crashed>>

\* The await resumes: res.end(text).
MetricsEnd(i) ==
  /\ ~crashed
  /\ i \in DOMAIN reqs
  /\ reqs[i].phase = "collected"
  /\ reqs' = [reqs EXCEPT
       ![i].phase = "ended",
       ![i].status = MetricsHandler(reqs[i].snap).status,
       ![i].resp = MetricsHandler(reqs[i].snap).body,
       ![i].expect = [status |-> MetricsHandler(reqs[i].snap).status,
                      body   |-> MetricsHandler(reqs[i].snap).body]]
  /\ UNCHANGED <<users, httpRequestsTotal, httpRequestDuration, tracing, crashed>>

\* No route matched: Express' final handler answers 404.
Unmatched(rq) ==
  /\ rq.route = "none"
  /\ Receive(rq, [tel |-> <<>>, push |-> <<>>, threw |-> FALSE,
                  status |-> ExpressNotFound.status, body |-> ExpressNotFound.body],
             "ended", ExpressNotFound, FALSE)

\* The response's 'finish' event: the callback the middleware registered
\* runs once.  A call that throws ends the callback there, and the exception,
\* which nothing catches, ends the process.
Finish(i, f) ==
  /\ ~crashed
  /\ i \in DOMAIN reqs
  /\ reqs[i].phase = "ended"
  /\ LET r == reqs[i]
         e == Exec(FinishCalls(r, tracing), f)
     IN  /\ httpRequestsTotal' =
               IF Made(e.done, "inc") THEN AddSample(httpRequestsTotal, Labels(r))
               ELSE httpRequestsTotal
         /\ httpRequestDuration' =
               IF Made(e.done, "observe") THEN AddSample(httpRequestDuration, Labels(r))
               ELSE httpRequestDuration
         /\ reqs' = [reqs EXCEPT
               ![i].phase = "done",
               ![i].tel = @ \o Tag(e.done, "pipeline"),
               ![i].sample = IF Made(e.done, "inc") THEN <<Labels(r)>> ELSE <<>>]
         /\ crashed' = e.threw
  /\ UNCHANGED <<users, tracing>>

Init ==
  /\ users = SeedUsers
  /\ httpRequestsTotal = NoSamples
  /\ httpRequestDuration = NoSamples
  /\ reqs = <<>>
  /\ tracing \in BOOLEAN
  /\ crashed = FALSE

\* One step of the server, the telemetry fault of the step drawn from F.
Step(F) ==
  \E f \in F :
    \/ \E rq \in RequestInputs :
         \/ GetRoot(rq, f)
         \/ GetHealth(rq, f)
         \/ GetUsers(rq, f)
         \/ GetUserById(rq, f)
         \/ PostUsers(rq, f)
         \/ GetSlow(rq, f)
         \/ GetError(rq, f)
         \/ GetMetrics(rq, f)
         \/ Unmatched(rq)
    \/ \E i \in 1..MaxReq :
         \/ SlowResume(i)
         \/ MetricsCollect(i)
         \/ MetricsEnd(i)
         \/ Finish(i, f)

\* The telemetry libraries behave as documented: no call throws.
Next == Step(NoFault)

Spec == Init /\ [][Next]_vars

\* Any telemetry subsystem may throw in any step.
NextFault == Step(Faults)

SpecFault == Init /\ [][NextFault]_vars

\* ------------------------------------------------------------------- claims

Indices == 1..Len(reqs)

IsNumeric(seg) == seg # <<>> /\ \A k \in 1..Len(seg) : seg[k] \in DecDigits

IdSegment(r) == StripTrailingSlash(r.path)[3]

ValidCreate(r) ==
  /\ r.route = "create_user"
  /\ ~(r.body.name \in {UNDEF, ""})
  /\ ~(r.body.email \in {UNDEF, ""})

InvalidCreate(r) ==
  /\ r.route = "create_user"
  /\ (r.body.name \in {UNDEF, ""} \/ r.body.email \in {UNDEF, ""})

\* C1: a POST /api/users whose body has truthy name and email answers 201,
\* appends exactly one user to the store, returns that user, gives it the id
\* (largest id in the store before the request) + 1, the supplied name and
\* email, and the supplied role, or "user" when the body carries no role.
CreateUserAppendsNextId ==
  \A i \in Indices :
    LET r == reqs[i]
    IN  (ValidCreate(r) /\ Responded(r)) =>
          /\ r.status = 201
          /\ r.resp.kind = "user"
          /\ Len(r.resp.users) = 1
          /\ r.usersAfter = Append(r.usersBefore, r.resp.users[1])
          /\ \A k \in 1..Len(r.usersBefore) : r.usersBefore[k].id < r.resp.users[1].id
          /\ \E k \in 1..Len(r.usersBefore) : r.resp.users[1].id = r.usersBefore[k].id + 1
          /\ r.resp.users[1].name = r.body.name
          /\ r.resp.users[1].email = r.body.email
          /\ r.resp.users[1].role = (IF r.body.role = UNDEF THEN "user" ELSE r.body.role)

\* Two users were created one after the other, the second with no role.
CreateUserWitness ==
  \E i \in Indices :
    /\ ValidCreate(reqs[i])
    /\ reqs[i].status = 201
    /\ reqs[i].body.role = UNDEF
    /\ reqs[i].resp.users[1].id = 6
    /\ Len(users) = 6

\* C2: a POST /api/users whose name or email is missing or falsy answers 400
\* with {error: "Name and email are required"} and leaves the store as it was.
CreateUserRejectsMissingFields ==
  \A i \in Indices :
    LET r == reqs[i]
    IN  (InvalidCreate(r) /\ Responded(r)) =>
          /\ r.status = 400
          /\ r.resp = ErrorBody("Name and email are required")
          /\ r.usersAfter = r.usersBefore

\* A request with an empty name and an email was rejected after a user had
\* been created.
CreateUserRejectedWitness ==
  \E i \in Indices :
    /\ reqs[i].route = "create_user"
    /\ reqs[i].body.name = ""
    /\ reqs[i].body.email # UNDEF
    /\ reqs[i].status = 400
    /\ Len(reqs[i].usersBefore) = 5

\* C3: GET /api/users/:id agrees with store membership: 200 with exactly the
\* stored user when a user with the requested integer id is in the store,
\* 404 with {error: "User not found"} when none is; the store is unchanged.
GetUserAgreesWithStore ==
  \A i \in Indices :
    LET r  == reqs[i]
        id == ParseInt(IdSegment(r))
        at == {k \in 1..Len(r.usersBefore) :
                 ~id.nan /\ r.usersBefore[k].id = id.val}
    IN  (r.route = "user_by_id" /\ Responded(r)) =>
          /\ at # {} => /\ r.status = 200
                        /\ r.resp.kind = "user"
                        /\ \E k \in at : r.resp.users = << r.usersBefore[k] >>
          /\ at = {} => /\ r.status = 404
                        /\ r.resp = ErrorBody("User not found")
          /\ r.usersAfter = r.usersBefore

\* A user created by POST was then fetched by its id.
GetCreatedUserWitness ==
  \E i \in Indices :
    /\ reqs[i].route = "user_by_id"
    /\ reqs[i].status = 200
    /\ reqs[i].resp.users[1].id = 5
    /\ reqs[i].resp.users[1].name = "X"

\* C4 (as claimed): GET /api/users/:id answers 404 with
\* {error: "User not found"} whenever the :id segment is not numeric.
NonNumericIdIsNotFound ==
  \A i \in Indices :
    LET r == reqs[i]
    IN  (r.route = "user_by_id" /\ Responded(r) /\ ~IsNumeric(IdSegment(r))) =>
          /\ r.status = 404
          /\ r.resp = ErrorBody("User not found")

\* Number of calls of one kind that one side made for a request.
Calls(r, by, sys, call) ==
  Cardinality({k \in 1..Len(r.tel) :
                 r.tel[k].by = by /\ r.tel[k].sys = sys /\ r.tel[k].call = call})

PipelineLogs(r) ==
  Cardinality({k \in 1..Len(r.tel) :
                 /\ r.tel[k].by = "pipeline" /\ r.tel[k].sys = "logger"
                 /\ r.tel[k].call = "info" /\ r.tel[k].arg = "HTTP Request"})

\* The requests whose metric sample went under label set l.
SampledUnder(l) == {i \in Indices : reqs[i].sample = <<l>>}

\* C5: every completed request, whatever its route, status or interleaving,
\* makes the pipeline record exactly one metric sample (one counter increment
\* and one histogram observation under the same label set) and emit exactly
\* one 'HTTP Request' info log record; a request not yet completed has none.
OneSampleAndOneLogPerRequest ==
  /\ \A i \in Indices :
       LET r == reqs[i]
           n == IF r.phase = "done" THEN 1 ELSE 0
       IN  /\ Calls(r, "pipeline", "metrics", "inc") = n
           /\ Calls(r, "pipeline", "metrics", "observe") = n
           /\ PipelineLogs(r) = n
           /\ Len(r.sample) = n
           /\ n = 1 => /\ r.sample[1] \in DOMAIN httpRequestsTotal
                       /\ r.sample[1] \in DOMAIN httpRequestDuration
  /\ \A l \in DOMAIN httpRequestsTotal :
       httpRequestsTotal[l] = Cardinality(SampledUnder(l))
  /\ httpRequestDuration = httpRequestsTotal

\* A failed request and a slow one, both completed.
OneSampleMixedWitness ==
  /\ \E i \in Indices : reqs[i].phase = "done" /\ reqs[i].status >= 400
  /\ \E i \in Indices : reqs[i].phase = "done" /\ reqs[i].route = "slow"

\* C6 (as claimed): for a completed request with an active span, the span's
\* status is set at most once by handler and completion callback together.
SpanStatusSetAtMostOnce ==
  \A i \in Indices :
    (tracing /\ reqs[i].phase = "done") =>
       Calls(reqs[i], "handler", "span", "setStatus")
         + Calls(reqs[i], "pipeline", "span", "setStatus") <= 1

\* Position in r.tel of the pipeline's call of one kind (0: not made).
At(r, sys, call) ==
  LET ks == {k \in 1..Len(r.tel) :
               r.tel[k].by = "pipeline" /\ r.tel[k].sys = sys /\ r.tel[k].call = call}
  IN  IF ks = {} THEN 0 ELSE CHOOSE k \in ks : TRUE

\* C7: the pipeline's telemetry for a request happens only once the handler
\* has run and the response is finalized, in the order: counter increment,
\* histogram observation, span attributes, span status (exactly when a span
\* is active and status_code >= 400, with message "HTTP {status_code}"),
\* 'HTTP Request' log record; no handler record follows a pipeline record.
PipelineTelemetryOrder ==
  \A i \in Indices :
    LET r      == reqs[i]
        inc    == At(r, "metrics", "inc")
        obs    == At(r, "metrics", "observe")
        attrs  == At(r, "span", "setAttributes")
        status == At(r, "span", "setStatus")
        log    == At(r, "logger", "info")
    IN  /\ (\E k \in 1..Len(r.tel) : r.tel[k].by = "pipeline") =>
             (r.phase = "done" /\ r.status # 0)
        /\ \A j, k \in 1..Len(r.tel) :
             (j < k /\ r.tel[j].by = "pipeline") => r.tel[k].by = "pipeline"
        /\ r.phase = "done" =>
             /\ 0 < inc /\ inc < obs /\ obs < log
             /\ log = Len(r.tel)
             /\ tracing => (obs < attrs /\ attrs < log)
             /\ ~tracing => (attrs = 0 /\ status = 0)
             /\ (tracing /\ r.status >= 400) =>
                  /\ attrs < status /\ status < log
                  /\ r.tel[status].arg \in {"HTTP 400", "HTTP 404", "HTTP 500"}
                  /\ r.status = 400 <=> r.tel[status].arg = "HTTP 400"
                  /\ r.status = 404 <=> r.tel[status].arg = "HTTP 404"
             /\ (tracing /\ r.status < 400) => status = 0

\* A traced request that failed in its handler completed: the handler's log
\* record, then the pipeline's five calls.
PipelineOrderWitness ==
  \E i \in Indices :
    /\ tracing
    /\ reqs[i].phase = "done"
    /\ reqs[i].status = 404
    /\ Calls(reqs[i], "handler", "logger", "warn") = 1
    /\ At(reqs[i], "span", "setStatus") # 0

\* C8 (as claimed): a telemetry call that throws never changes the response
\* (status and body are those of the run in which nothing throws), and a
\* throw inside the completion callback does not escape it.
TelemetryFailureIsContained ==
  /\ ~crashed
  /\ \A i \in Indices :
       /\ reqs[i].phase # "hung"
       /\ Responded(reqs[i]) =>
            /\ reqs[i].status = reqs[i].expect.status
            /\ reqs[i].resp = reqs[i].expect.body

HealthLabel == [method |-> "GET", route |-> <<API, HEALTH>>, status_code |-> 200]

Reported(c, l) == IF l \in DOMAIN c THEN c[l] ELSE 0

RECURSIVE Total(_)
Total(c) ==
  IF DOMAIN c = {} THEN 0
  ELSE LET l == CHOOSE x \in DOMAIN c : TRUE
       IN  c[l] + Total([x \in DOMAIN c \ {l} |-> c[x]])

StoreBefore(i) == IF i = 1 THEN SeedUsers ELSE reqs[i - 1].usersAfter

Created(r) == r.route = "create_user" /\ r.status = 201

\* C11: only a successful POST /api/users changes the store, and only by
\* appending one user; every other request, and every later step of any
\* request, leaves it as it was, so no user is ever updated or removed; two
\* GET /api/users responses with no successful POST between them carry the
\* same users and total.
OnlyCreateAppendsToStore ==
  /\ \A i \in Indices :
       LET r == reqs[i]
       IN  /\ r.usersBefore = StoreBefore(i)
           /\ Created(r) =>
                /\ Len(r.usersAfter) = Len(r.usersBefore) + 1
                /\ SubSeq(r.usersAfter, 1, Len(r.usersBefore)) = r.usersBefore
           /\ ~Created(r) => r.usersAfter = r.usersBefore
  /\ users = (IF reqs = <<>> THEN SeedUsers ELSE reqs[Len(reqs)].usersAfter)
  /\ SubSeq(users, 1, Len(SeedUsers)) = SeedUsers
  /\ \A i, j \in Indices :
       ( /\ i < j
         /\ reqs[i].route = "users_list" /\ Responded(reqs[i])
         /\ reqs[j].route = "users_list" /\ Responded(reqs[j])
         /\ \A k \in Indices : (i < k /\ k < j) => ~Created(reqs[k]) ) =>
           /\ reqs[i].resp.users = reqs[j].resp.users
           /\ reqs[i].resp.total = reqs[j].resp.total

\* A rejected POST came after a successful one and the store kept its five
\* users through both requests' completion.
StoreFrameWitness ==
  /\ Len(reqs) = 2
  /\ Created(reqs[1])
  /\ reqs[2].route = "create_user"
  /\ reqs[2].status = 400
  /\ reqs[1].phase = "done"
  /\ reqs[2].phase = "done"
  /\ Len(users) = 5

\* Request j is an /api/slow request suspended at its delay.
StillWaiting(j) == reqs[j].route = "slow" /\ reqs[j].phase = "waiting"

\* C12: under any interleaving of in-flight requests, the ids in the store
\* are pairwise distinct, and each created user's id is strictly greater
\* than every id in the store when it was created; the store a create-user
\* handler reads its maximum from is the store it appends to.
UserIdsDistinctAndIncreasing ==
  /\ \A a, b \in 1..Len(users) : a # b => users[a].id # users[b].id
  /\ \A i \in Indices :
       LET r == reqs[i]
       IN  Created(r) =>
             /\ r.usersBefore = StoreBefore(i)
             /\ r.usersAfter = Append(r.usersBefore, r.resp.users[1])
             /\ \A k \in 1..Len(r.usersBefore) :
                  r.usersBefore[k].id < r.resp.users[1].id
             /\ \E k \in 1..Len(users) : users[k] = r.resp.users[1]

\* A user was created while an earlier /api/slow request was suspended at
\* its delay.
CreateDuringSlowWitness ==
  \E i, j \in Indices :
    /\ i < j
    /\ StillWaiting(i)
    /\ Created(reqs[j])
    /\ reqs[j].phase = "done"
    /\ reqs[j].resp.users[1].id = 5

\* The log records of one side for a request, in order.
LogRecords(r, by) ==
  SelectSeq(r.tel, LAMBDA e : e.sys = "logger" /\ e.by = by)

AllLogRecords(r) == SelectSeq(r.tel, LAMBDA e : e.sys = "logger")

\* info on normal paths, warn on user-not-found, error on 400 and 500.
LevelFor(r) ==
  CASE r.status = 404 -> "warn"
    [] r.status \in {400, 500} -> "error"
    [] OTHER -> "info"

\* The handler emitted its one record, before any response, and once the
\* request completed its records are the handler's, then the pipeline's.
LogsOnceThenPipeline(r) ==
  /\ Len(LogRecords(r, "handler")) = 1
  /\ Responded(r) => LogRecords(r, "handler")[1].call = LevelFor(r)
  /\ ~Responded(r) => LogRecords(r, "handler")[1].call = "info"
  /\ r.phase = "done" =>
       /\ Len(AllLogRecords(r)) = 2
       /\ AllLogRecords(r)[1].by = "handler"
       /\ AllLogRecords(r)[2].by = "pipeline"

\* C13 (as claimed): every request served by a handler of the route table,
\* GET /metrics included, has exactly one handler log record, emitted before
\* the response, of level info, warn (404) or error (400, 500), and so two
\* log records in all once completed.
EveryHandlerLogsOnce ==
  \A i \in Indices : reqs[i].routeIdx # 0 => LogsOnceThenPipeline(reqs[i])

\* C13 (amended): the same for every route handler except GET /metrics,
\* whose handler emits no log record, so that a completed /metrics request
\* has the pipeline's record alone.
EveryHandlerButMetricsLogsOnce ==
  \A i \in Indices :
    LET r == reqs[i]
    IN  /\ (r.routeIdx # 0 /\ r.route # "metrics") => LogsOnceThenPipeline(r)
        /\ r.route = "metrics" =>
             /\ LogRecords(r, "handler") = <<>>
             /\ r.phase = "done" =>
                  /\ Len(AllLogRecords(r)) = 1
                  /\ AllLogRecords(r)[1].by = "pipeline"

\* A rejected create-user request and a /metrics request, both completed.
HandlerLogWitness ==
  /\ \E i \in Indices :
       /\ reqs[i].route = "create_user"
       /\ reqs[i].status = 400
       /\ reqs[i].phase = "done"
       /\ LogRecords(reqs[i], "handler")[1].call = "error"
  /\ \E i \in Indices :
       /\ reqs[i].route = "metrics"
       /\ reqs[i].phase = "done"

====
